---- MODULE Spec2Model ----
(***************************************************************************)
(* Wealth projection engine of wealth-planner-backend                      *)
(* (src/src/services/WealthProjectionService.ts).                          *)
(*                                                                         *)
(* Numbers.  The code computes on IEEE doubles.  The model keeps money as  *)
(* an integer count of sub-units (SubPerCent sub-units per cent) and       *)
(* rounds every product to the nearest sub-unit, so the running value has  *)
(* finer precision than the cents of a yearly snapshot.  Event amounts are *)
(* Decimal(_,2) values, held in cents.  An interest rate is held in whole  *)
(* percent per annum (12 stands for 0.12).                                 *)
(*                                                                         *)
(* Dates.  A Date is [y, m, d]: m is the JS month 0..11, d = 1 is the      *)
(* first instant of the month (what new Date(y, m, 1) builds) and d > 1    *)
(* any later instant of that month.  Dates are read in local time.         *)
(***************************************************************************)
EXTENDS Integers, Sequences, FiniteSets

\* ---------------------------------------------------------------- bounds
MaxYears == 1

MaxDay == 2

MaxEvents == 2

BaseYear == 2026

\* ------------------------------------------------------------- constants
MonthsPerYear == 12

SubPerCent == 10

\* ------------------------------------------------------------ data model
EventTypes == {"INCOME", "EXPENSE", "INVESTMENT", "WITHDRAWAL", "BONUS", "INHERITANCE", "LOAN"}

Frequencies == {"ONCE", "MONTHLY", "QUARTERLY", "ANNUALLY"}

\* event.endDate = null
NoDate == [y |-> 0, m |-> 0, d |-> 0]

\* Order of two Date objects under <, > (their timestamps).
DateNum(dt) == (dt.y * MonthsPerYear + dt.m) * 32 + dt.d

\* new Date(targetYear, month, 1)
MonthStart(y, m) == [y |-> y, m |-> m, d |-> 1]

\* Number(event.value): a Decimal amount in cents, as a number in sub-units.
ToNumber(cents) == cents * SubPerCent

Max(a, b) == IF a >= b THEN a ELSE b

\* Math.round(currentValue * 100) / 100, in cents: nearest cent, half up.
RoundCents(v) == (2 * v + SubPerCent) \div (2 * SubPerCent)

\* --------------------------------------------------- getMonthsDifference
getMonthsDifference(startDate, targetDate) ==
    LET yearDiff  == targetDate.y - startDate.y
        monthDiff == targetDate.m - startDate.m
    IN  yearDiff * MonthsPerYear + monthDiff

\* ----------------------------------------------------- getEventsForMonth
\* The two early `continue`s of the loop body.
StartsAfter(event, targetDate) == DateNum(event.startDate) > DateNum(targetDate)

EndsBefore(event, targetDate) ==
    /\ event.endDate # NoDate
    /\ DateNum(event.endDate) < DateNum(targetDate)

\* The switch on event.frequency.
FrequencyMatches(event, targetDate) ==
    CASE event.frequency = "ONCE" ->
            /\ event.startDate.y = targetDate.y
            /\ event.startDate.m = targetDate.m
      [] event.frequency = "MONTHLY" -> TRUE
      [] event.frequency = "QUARTERLY" ->
            getMonthsDifference(event.startDate, targetDate) % 3 = 0
      [] event.frequency = "ANNUALLY" ->
            event.startDate.m = targetDate.m
      [] OTHER -> FALSE

\* One iteration of the loop: is the event pushed to applicableEvents?
Applies(event, targetDate) ==
    /\ ~StartsAfter(event, targetDate)
    /\ ~EndsBefore(event, targetDate)
    /\ FrequencyMatches(event, targetDate)

\* Indices (in the caller's order) of the events pushed to applicableEvents.
ApplicableIdx(events, targetDate) ==
    {i \in 1..Len(events) : Applies(events[i], targetDate)}

getEventsForMonth(events, targetDate) ==
    SelectSeq(events, LAMBDA e : Applies(e, targetDate))

\* --------------------------------------------------- simulateWealthCurve
IsInflow(type) == type \in {"INCOME", "BONUS", "INHERITANCE", "INVESTMENT"}

IsOutflowNoLoan(type) == type \in {"EXPENSE", "WITHDRAWAL"}

IsOutflow(type) == type \in {"EXPENSE", "WITHDRAWAL", "LOAN"}

ApplyEventFloored(value, event) ==
    LET eventValue == ToNumber(event.value)
    IN  IF IsInflow(event.type) THEN Max(0, value + eventValue)
        ELSE IF IsOutflow(event.type) THEN Max(0, value - eventValue)
        ELSE Max(0, value)

\* Body of `for (const event of eventsThisMonth)`.
ApplyEvent(value, event) ==
    LET eventValue == ToNumber(event.value)
    IN  IF IsInflow(event.type) THEN value + eventValue
        ELSE IF IsOutflow(event.type) THEN value - eventValue
        ELSE value

RECURSIVE ApplyEvents(_, _)
ApplyEvents(value, eventsThisMonth) ==
    IF eventsThisMonth = <<>> THEN value
    ELSE ApplyEvents(ApplyEvent(value, Head(eventsThisMonth)), Tail(eventsThisMonth))

\* currentValue * (1 + monthlyRate), monthlyRate = interestRate / 12,
\* interestRate = rate / 100; rounded to the nearest sub-unit.
Grow(value, rate) ==
    LET den == MonthsPerYear * 100
    IN  (value * (den + rate) + den \div 2) \div den

Floor0Off(value) == value

\* Math.max(0, currentValue)
Floor0(value) == Max(0, value)

MonthBodyFloorFirst(value, p, targetYear, m) ==
    ApplyEvents(Floor0(Grow(value, p.interestRate)),
                getEventsForMonth(p.events, MonthStart(targetYear, m)))

MonthBodyRateByHorizon(value, p, targetYear, m) ==
    Floor0(ApplyEvents(Grow(value, p.interestRate * p.projectionYears),
                       getEventsForMonth(p.events, MonthStart(targetYear, m))))

\* Body of the month loop.
MonthBody(value, p, targetYear, m) ==
    Floor0(ApplyEvents(Grow(value, p.interestRate),
                       getEventsForMonth(p.events, MonthStart(targetYear, m))))

YearInRangeExclusive(yr, projectionYears) == yr < projectionYears

\* Loop test of the year loop.
YearInRange(yr, projectionYears) == yr <= projectionYears

TargetYearFixed(clockYear, yr) == clockYear

\* const targetYear = currentYear + year
TargetYear(clockYear, yr) == clockYear + yr

\* The month loop from month m on: the value after December.  The running
\* value is a number at the head of every iteration.
RECURSIVE MonthsFrom(_, _, _, _)
MonthsFrom(value, p, targetYear, m) ==
    IF m < MonthsPerYear /\ value \in Int
    THEN MonthsFrom(MonthBody(value, p, targetYear, m), p, targetYear, m + 1)
    ELSE value

\* The year loop from year offset yr on: the points pushed from there.
RECURSIVE CurveFrom(_, _, _, _)
CurveFrom(p, clockYear, yr, value) ==
    IF ~YearInRange(yr, p.projectionYears) THEN <<>>
    ELSE LET targetYear == TargetYear(clockYear, yr)
             endOfYear  == MonthsFrom(value, p, targetYear, 0)
         IN  <<[year |-> targetYear, projectedValue |-> RoundCents(endOfYear)]>>
                \o CurveFrom(p, clockYear, yr + 1, endOfYear)

\* The function as a whole: its result for params p when the clock reads clockYear.
simulateWealthCurve(p, clockYear) == CurveFrom(p, clockYear, 0, p.initialValue)

\* ------------------------------------------------ numbers of the analytics
\* A JS number that may be non-finite, or an absent (undefined) field.
Fin(v) == [k |-> "fin", v |-> v]

Infinity == [k |-> "inf", v |-> 0]

NaN == [k |-> "nan", v |-> 0]

Undefined == [k |-> "undef", v |-> 0]

\* a / b to the nearest integer, half up (b > 0): Math.round of a quotient.
RoundDiv(a, b) == (2 * a + b) \div (2 * b)

\* a / b to the nearest integer for a, b >= 0 (b > 0), a large.
NearDiv(a, b) == (a + b \div 2) \div b

\* ----------------------------------------------- generateAutoSuggestions
\* Amounts are whole currency units on input; contributions are computed in
\* cents.  A period is held in tenths of a month (shorterPeriod need not be
\* whole).  A power is held in units of 1 / PowScale.  The description text
\* of a suggestion is left out.
PowScale == 10000

\* monthlyRate = 0.04 / 12 = 1 / AssumedRateInv
AssumedRateInv == 300

CentsPerUnit == 100

TenthsPerMonth == 10

GapReachedStrict(gap) == gap < 0

\* if (gap <= 0)
GapReached(gap) == gap <= 0

\* The binomial series of (1 + monthlyRate)^period from term number k on,
\* given term number k - 1; every term is rounded to 1 / PowScale, and the
\* series ends at the first term that rounds to 0.
RECURSIVE PowTerms(_, _, _)
PowTerms(term, k, periodTenths) ==
    LET next == RoundDiv(term * (periodTenths - TenthsPerMonth * (k - 1)),
                         TenthsPerMonth * k * AssumedRateInv)
    IN  IF next = 0 THEN 0 ELSE next + PowTerms(next, k + 1, periodTenths)

\* Math.pow(1 + monthlyRate, period), period whole or not.
Pow(periodTenths) == PowScale + PowTerms(PowScale, 1, periodTenths)

\* (Math.pow(1 + monthlyRate, period) - 1) / monthlyRate, in 1 / PowScale.
FutureValueFactor(periodTenths) == (Pow(periodTenths) - PowScale) * AssumedRateInv

\* gap / factor, in cents; a zero factor gives Infinity.
GapOverFactor(gap, factor) ==
    IF factor = 0 THEN Infinity
    ELSE Fin(NearDiv(gap * CentsPerUnit * PowScale, factor))

\* x - currentMonthlyContribution, in cents.
Minus(x, contribution) ==
    IF x.k = "fin" THEN Fin(x.v - contribution * CentsPerUnit) ELSE x

\* x > 0
IsPositive(x) == x.k = "inf" \/ (x.k = "fin" /\ x.v > 0)

GreaterOrEqual(a, b) ==
    \/ a.k = "inf" /\ b.k \in {"fin", "inf"}
    \/ a.k = "fin" /\ b.k = "fin" /\ a.v >= b.v

\* a > b
Greater(a, b) ==
    \/ a.k = "inf" /\ b.k = "fin"
    \/ a.k = "fin" /\ b.k = "fin" /\ a.v > b.v

\* Math.round(x), x in cents, as whole currency units.
RoundUnits(x) == IF x.k = "fin" THEN Fin(RoundDiv(x.v, CentsPerUnit)) ELSE x

MonthsRemainingInYears(timeHorizonYears) == timeHorizonYears * TenthsPerMonth

\* timeHorizonYears * 12
MonthsRemaining(timeHorizonYears) == timeHorizonYears * MonthsPerYear * TenthsPerMonth

\* Math.max(24, timeHorizonYears * 12 * 0.7)
ShorterPeriod(timeHorizonYears) ==
    Max(24 * TenthsPerMonth, (timeHorizonYears * MonthsPerYear * 7 * TenthsPerMonth) \div 10)

\* additionalContribution (lines 127-133)
AdditionalContribution(a) ==
    Minus(GapOverFactor(a.targetPatrimony - a.currentPatrimony,
                        FutureValueFactor(MonthsRemaining(a.timeHorizonYears))),
          a.currentMonthlyContribution)

\* higherContribution (lines 143-145)
HigherContribution(a) ==
    Minus(GapOverFactor(a.targetPatrimony - a.currentPatrimony,
                        FutureValueFactor(ShorterPeriod(a.timeHorizonYears))),
          a.currentMonthlyContribution)

PushFront(list, items) == items \o list

\* suggestions.push(...): items go to the end of the array.
Push(list, items) == list \o items

Suggestion(type, value, period) ==
    [type |-> type, suggestedValue |-> value, suggestedPeriod |-> period]

\* The suggestion pushed when gap <= 0.
Congratulations == Suggestion("CONGRATULATIONS", Fin(0), Fin(0))

\* if (additionalContribution > 0) { ... }: the suggestions it pushes.
ContributionSuggestions(a) ==
    LET additional == AdditionalContribution(a)
        higher     == HigherContribution(a)
        first      == Suggestion("INCREASE_CONTRIBUTION", RoundUnits(additional),
                                 Fin(MonthsRemaining(a.timeHorizonYears)))
        second     == Suggestion("INCREASE_CONTRIBUTION", RoundUnits(higher),
                                 Fin(ShorterPeriod(a.timeHorizonYears)))
    IN  IF IsPositive(additional)
        THEN IF Greater(higher, additional) THEN <<first, second>> ELSE <<first>>
        ELSE <<>>

LargeGapInclusive(gap, targetPatrimony) == gap * 100 >= 50 * targetPatrimony

\* gapPercentage = (gap / targetPatrimony) * 100; gapPercentage > 50
\* (targetPatrimony > 0 wherever gap > 0 in the inputs drawn).
LargeGap(gap, targetPatrimony) == gap * 100 > 50 * targetPatrimony

\* if (gapPercentage > 50) { ... }: the suggestions it pushes.
AllocationSuggestions(a) ==
    IF LargeGap(a.targetPatrimony - a.currentPatrimony, a.targetPatrimony)
    THEN <<Suggestion("ADJUST_ALLOCATION", Undefined, Undefined)>>
    ELSE <<>>

\* The function as a whole.
generateAutoSuggestions(a) ==
    IF GapReached(a.targetPatrimony - a.currentPatrimony)
    THEN <<Congratulations>>
    ELSE Push(Push(<<>>, ContributionSuggestions(a)), AllocationSuggestions(a))

\* --------------------------------------------- calculatePortfolioMetrics
\* Money is held in cents, a percentage in hundredths of a percent, and the
\* root taken by Math.pow in units of 1 / RootScale.
RootScale == 100

PercentScale == 10000

\* A returned null.
Null == [isNull |-> TRUE]

IsEmptyOrSingle(curve) == Len(curve) <= 1

\* projectionData.length === 0
IsEmpty(curve) == Len(curve) = 0

\* projectionData[projectionData.length - 1].projectedValue
FinalValue(curve) == curve[Len(curve)].projectedValue

TotalYearsAsLength(curve) == Len(curve)

\* projectionData.length - 1
TotalYears(curve) == Len(curve) - 1

RECURSIVE IntPow(_, _)
IntPow(b, n) == IF n = 0 THEN 1 ELSE b * IntPow(b, n - 1)

\* The multiple r of 1 / RootScale nearest to (num / den)^(1/n), searched
\* upwards from r (num >= 0, den > 0, n > 0).
RECURSIVE RootFrom(_, _, _, _)
RootFrom(r, num, den, n) ==
    IF IntPow(2 * r + 1, n) * den > num * IntPow(2 * RootScale, n) THEN r
    ELSE RootFrom(r + 1, num, den, n)

\* Math.pow(finalValue / initialValue, 1 / totalYears) - 1, in 1 / RootScale
\* (finalValue >= 0, initialValue >= 0, totalYears > 0).
GrowthRate(finalValue, initialValue, totalYears) ==
    IF initialValue = 0
    THEN IF finalValue = 0 THEN NaN ELSE Infinity
    ELSE Fin(RootFrom(0, finalValue, initialValue, totalYears) - RootScale)

\* const cagr = totalYears > 0 ? ... : 0
Cagr(finalValue, initialValue, totalYears) ==
    IF totalYears > 0 THEN GrowthRate(finalValue, initialValue, totalYears) ELSE Fin(0)

\* Math.round(cagr * 10000) / 100, in hundredths of a percent.
CagrPercent(cagr) ==
    IF cagr.k = "fin" THEN Fin(RoundDiv(cagr.v * PercentScale, RootScale)) ELSE cagr

TotalGainReversed(finalValue, initialValue) == initialValue - finalValue

\* finalValue - initialValue
TotalGain(finalValue, initialValue) == finalValue - initialValue

\* initialValue > 0 ? (totalGain / initialValue) * 100 : 0, rounded to 2
\* decimals: in hundredths of a percent.
TotalGainPercent(totalGain, initialValue) ==
    IF initialValue > 0 THEN RoundDiv(totalGain * PercentScale, initialValue) ELSE 0

\* The function as a whole; the money fields are cents already, which
\* Math.round(x * 100) / 100 leaves as they are.
calculatePortfolioMetrics(curve, initialValue) ==
    IF IsEmpty(curve) THEN Null
    ELSE LET finalValue == FinalValue(curve)
             totalYears == TotalYears(curve)
             totalGain  == TotalGain(finalValue, initialValue)
         IN  [isNull |-> FALSE,
              finalValue |-> finalValue,
              totalGain |-> totalGain,
              totalGainPercent |-> TotalGainPercent(totalGain, initialValue),
              cagr |-> CagrPercent(Cagr(finalValue, initialValue, totalYears)),
              projectionYears |-> totalYears]

\* ------------------------------------------- ClientController.getAlignment
\* client.wallets.reduce((sum, wallet) => sum + Number(wallet.<field>), 0)
RECURSIVE SumCurrent(_)
SumCurrent(wallets) ==
    IF wallets = <<>> THEN 0 ELSE Head(wallets).currentValue + SumCurrent(Tail(wallets))

RECURSIVE SumPlanned(_)
SumPlanned(wallets) ==
    IF wallets = <<>> THEN 0 ELSE Head(wallets).totalPatrimony + SumPlanned(Tail(wallets))

\* alignmentPercent, unrounded, as the fraction num / den (den > 0).
AlignmentPercent(currentPatrimony, plannedPatrimony) ==
    IF plannedPatrimony > 0
    THEN [num |-> currentPatrimony * 100, den |-> plannedPatrimony]
    ELSE [num |-> 0, den |-> 1]

ExcellentFrom90(p) == p.num >= 90 * p.den

\* alignmentPercent > 90
Above90(p) == p.num > 90 * p.den

\* alignmentPercent >= t
AtLeast(p, t) == p.num >= t * p.den

\* The if / else-if chain that sets category.
Category(p) ==
    IF Above90(p) THEN "EXCELLENT"
    ELSE IF AtLeast(p, 70) THEN "GOOD"
    ELSE IF AtLeast(p, 50) THEN "WARNING"
    ELSE "CRITICAL"

\* The data of the reply; alignmentPercent in hundredths of a percent.
getAlignment(wallets) ==
    LET currentPatrimony == SumCurrent(wallets)
        plannedPatrimony == SumPlanned(wallets)
        p                == AlignmentPercent(currentPatrimony, plannedPatrimony)
    IN  [status |-> 200,
         currentPatrimony |-> currentPatrimony,
         plannedPatrimony |-> plannedPatrimony,
         alignmentPercent |-> RoundDiv(p.num * 100, p.den),
         category |-> Category(p)]

\* ---------------------------------------------------- SimulationController
\* A field left out of an update request (updateSimulationSchema is partial).
Absent == -1

AbsentName == ""

\* JS truthiness of an optional number: undefined and 0 are falsy.
Truthy(x) == x # Absent /\ x # 0

\* data.x || Number(existingSimulation.x)
OrElse(x, stored) == IF Truthy(x) THEN x ELSE stored

\* if (data.initialValue || data.interestRate || data.projectionYears)
Recomputes(data) ==
    Truthy(data.initialValue) \/ Truthy(data.interestRate) \/ Truthy(data.projectionYears)

\* The call of simulateWealthCurve with the client's events.
Projection(initialValue, interestRate, projectionYears, cl) ==
    simulateWealthCurve([initialValue |-> initialValue, interestRate |-> interestRate,
                         events |-> cl.events, projectionYears |-> projectionYears],
                        cl.clockYear)

\* The row written by create.
CreatedSimulation(data, cl) ==
    [name |-> data.name,
     initialValue |-> data.initialValue,
     interestRate |-> data.interestRate,
     projectionYears |-> data.projectionYears,
     projectionData |-> Projection(data.initialValue, data.interestRate,
                                   data.projectionYears, cl)]

\* updateData = { ...data }: a field of the request replaces the stored one.
Merged(x, stored) == IF x = Absent THEN stored ELSE x

\* The row left by update.
UpdatedSimulation(existing, data, cl) ==
    [name |-> IF data.name = AbsentName THEN existing.name ELSE data.name,
     initialValue |-> Merged(data.initialValue, existing.initialValue),
     interestRate |-> Merged(data.interestRate, existing.interestRate),
     projectionYears |-> Merged(data.projectionYears, existing.projectionYears),
     projectionData |->
        IF Recomputes(data)
        THEN Projection(OrElse(data.initialValue, existing.initialValue),
                        OrElse(data.interestRate, existing.interestRate),
                        OrElse(data.projectionYears, existing.projectionYears), cl)
        ELSE existing.projectionData]

\* ----------------------------------------------------------------- state
\* simulateWealthCurve
VARIABLES params, now, pc, year, month, currentValue, grown, projectionData, applied

\* History of the month loop: the running value of the last month before its
\* Math.max(0, .), and that of the month before it.
VARIABLES net, prevNet

\* generateAutoSuggestions: its arguments, control position and result so far.
VARIABLES sg, sgPc, suggestions

\* calculatePortfolioMetrics: its arguments, control position and result.
VARIABLES pm, pmPc, metrics

\* getAlignment: the client found (or none), control position and reply.
VARIABLES al, alPc, alignment

\* SimulationController: the client of the requests (its events, and the
\* year of the clock), the simulation rows, and the requests served.
VARIABLES client, db, requests

simVars == <<params, now, pc, year, month, currentValue, grown, projectionData, applied,
            net, prevNet>>

sgVars == <<sg, sgPc, suggestions>>

pmVars == <<pm, pmPc, metrics>>

alVars == <<al, alPc, alignment>>

ctlVars == <<client, db, requests>>

vars == <<simVars, sgVars, pmVars, alVars, ctlVars>>

currentYear == now.y

\* ---------------------------------------------------------------- inputs
StartMonths == {0, 6, 11}

StartDates ==
    {[y |-> yy, m |-> mm, d |-> dd] :
        yy \in (BaseYear - 1)..(BaseYear + 1), mm \in StartMonths, dd \in 1..MaxDay}

EndDates ==
    {NoDate, [y |-> BaseYear, m |-> 6, d |-> MaxDay], [y |-> BaseYear + 1, m |-> 0, d |-> 1]}

Amounts == {100, 2000}

Events ==
    [type : EventTypes, value : Amounts, frequency : Frequencies,
     startDate : StartDates, endDate : EndDates]

InitialValues == {0, ToNumber(1000)}

Rates == {0, 12}

\* The clock: an instant of the base year (only its year is read).
Clock == {[y |-> BaseYear, m |-> 11, d |-> MaxDay + 1]}

\* Events of the lists of two or more.
PoolEvents ==
    { [type |-> "INCOME", value |-> 100, frequency |-> "MONTHLY",
       startDate |-> [y |-> BaseYear - 1, m |-> 0, d |-> 1], endDate |-> NoDate],
      [type |-> "EXPENSE", value |-> 2000, frequency |-> "MONTHLY",
       startDate |-> [y |-> BaseYear, m |-> 6, d |-> 1], endDate |-> NoDate],
      [type |-> "BONUS", value |-> 2000, frequency |-> "ONCE",
       startDate |-> [y |-> BaseYear, m |-> 6, d |-> 1], endDate |-> NoDate],
      [type |-> "BONUS", value |-> 2000, frequency |-> "ONCE",
       startDate |-> [y |-> BaseYear, m |-> 6, d |-> MaxDay], endDate |-> NoDate],
      [type |-> "LOAN", value |-> 2000, frequency |-> "ONCE",
       startDate |-> [y |-> BaseYear + 1, m |-> 0, d |-> 1], endDate |-> NoDate] }

SeqsOfLen(S, n) == [1..n -> S]

EventLists ==
    {<<>>} \cup {<<e>> : e \in Events}
           \cup UNION {SeqsOfLen(PoolEvents, n) : n \in 2..MaxEvents}

Params ==
    [initialValue : InitialValues, interestRate : Rates,
     events : EventLists, projectionYears : 0..MaxYears]

\* No call of generateAutoSuggestions is in progress.
SgIdle ==
    /\ sg = [currentPatrimony |-> 0, targetPatrimony |-> 0,
             timeHorizonYears |-> 0, currentMonthlyContribution |-> 0]
    /\ sgPc = "idle"
    /\ suggestions = <<>>

\* No call of calculatePortfolioMetrics is in progress.
PmIdle ==
    /\ pm = [projectionData |-> <<>>, initialValue |-> 0]
    /\ pmPc = "idle"
    /\ metrics = [isNull |-> TRUE]

\* No simulation request has been served.
CtlIdle ==
    /\ client = [events |-> <<>>, clockYear |-> BaseYear]
    /\ db = <<>>
    /\ requests = 0

\* No request for an alignment is in progress.
AlIdle ==
    /\ al = [found |-> FALSE, wallets |-> <<>>]
    /\ alPc = "idle"
    /\ alignment = [status |-> 0]

\* No call of simulateWealthCurve is in progress.
SimIdle ==
    /\ params = [initialValue |-> 0, interestRate |-> 0, events |-> <<>>, projectionYears |-> 0]
    /\ now = [y |-> BaseYear, m |-> 0, d |-> 1]
    /\ pc = "idle"
    /\ year = 0
    /\ month = 0
    /\ currentValue = 0
    /\ grown = 0
    /\ projectionData = <<>>
    /\ applied = {}
    /\ net = 0
    /\ prevNet = 0

\* ----------------------------------------------------------- transitions
Init ==
    /\ params \in Params
    /\ now \in Clock
    /\ pc = "for"
    /\ year = 0
    /\ month = 0
    /\ currentValue = params.initialValue
    /\ grown = params.initialValue
    /\ projectionData = <<>>
    /\ applied = {}
    /\ net = params.initialValue
    /\ prevNet = params.initialValue
    /\ SgIdle
    /\ PmIdle
    /\ AlIdle
    /\ CtlIdle

\* for (let year = 0; year <= projectionYears; ...): enter the body.
YearLoop ==
    /\ pc = "for"
    /\ YearInRange(year, params.projectionYears)
    /\ pc' = "months"
    /\ month' = 0
    /\ UNCHANGED <<params, now, year, currentValue, grown, projectionData, applied, net, prevNet>>
    /\ UNCHANGED <<sgVars, pmVars, alVars, ctlVars>>

\* One iteration of for (let month = 0; month < 12; month++).
MonthStep ==
    /\ pc = "months"
    /\ month < MonthsPerYear
    /\ LET targetYear == TargetYear(currentYear, year)
       IN  /\ grown' = Grow(currentValue, params.interestRate)
           /\ currentValue' = MonthBody(currentValue, params, targetYear, month)
           /\ net' = ApplyEvents(Grow(currentValue, params.interestRate),
                                 getEventsForMonth(params.events, MonthStart(targetYear, month)))
           /\ prevNet' = net
           /\ applied' = applied \cup
                {<<i, targetYear, month>> :
                    i \in ApplicableIdx(params.events, MonthStart(targetYear, month))}
    /\ month' = month + 1
    /\ UNCHANGED <<params, now, pc, year, projectionData>>
    /\ UNCHANGED <<sgVars, pmVars, alVars, ctlVars>>

\* projectionData.push({year: targetYear, projectedValue: ...}); year++.
PushPoint ==
    /\ pc = "months"
    /\ month >= MonthsPerYear
    /\ projectionData' = Append(projectionData,
            [year |-> TargetYear(currentYear, year),
             projectedValue |-> RoundCents(currentValue)])
    /\ year' = year + 1
    /\ pc' = "for"
    /\ UNCHANGED <<params, now, month, currentValue, grown, applied, net, prevNet>>
    /\ UNCHANGED <<sgVars, pmVars, alVars, ctlVars>>

\* return projectionData
Return ==
    /\ pc = "for"
    /\ ~YearInRange(year, params.projectionYears)
    /\ pc' = "done"
    /\ UNCHANGED <<params, now, year, month, currentValue, grown, projectionData, applied,
                   net, prevNet>>
    /\ UNCHANGED <<sgVars, pmVars, alVars, ctlVars>>

Next == YearLoop \/ MonthStep \/ PushPoint \/ Return

Spec == Init /\ [][Next]_vars

\* ------------------------------- generateAutoSuggestions, step by step
MaxHorizon == 3

Patrimonies == {0, 400, 500, 1000}

Contributions == {0, 5, 50}

SgArgs ==
    [currentPatrimony : Patrimonies, targetPatrimony : Patrimonies,
     timeHorizonYears : 0..MaxHorizon, currentMonthlyContribution : Contributions]

SgGap == sg.targetPatrimony - sg.currentPatrimony

SgInit ==
    /\ SimIdle
    /\ PmIdle
    /\ AlIdle
    /\ CtlIdle
    /\ sg \in SgArgs
    /\ sgPc = "gap"
    /\ suggestions = <<>>

\* if (gap <= 0) { push CONGRATULATIONS; return suggestions; }
Congratulate ==
    /\ sgPc = "gap"
    /\ GapReached(SgGap)
    /\ suggestions' = Push(suggestions, <<Congratulations>>)
    /\ sgPc' = "done"
    /\ UNCHANGED <<sg, simVars, pmVars, alVars, ctlVars>>

\* Lines 127-155: the contribution suggestions.
SuggestContribution ==
    /\ sgPc = "gap"
    /\ ~GapReached(SgGap)
    /\ suggestions' = Push(suggestions, ContributionSuggestions(sg))
    /\ sgPc' = "allocation"
    /\ UNCHANGED <<sg, simVars, pmVars, alVars, ctlVars>>

\* Lines 157-167: the allocation suggestion, and the return.
SuggestAllocation ==
    /\ sgPc = "allocation"
    /\ suggestions' = Push(suggestions, AllocationSuggestions(sg))
    /\ sgPc' = "done"
    /\ UNCHANGED <<sg, simVars, pmVars, alVars, ctlVars>>

SgNext == Congratulate \/ SuggestContribution \/ SuggestAllocation

SpecSuggest == SgInit /\ [][SgNext]_vars

\* The two renderings of the function agree on the returned list.
SuggestionsAgree == sgPc = "done" => suggestions = generateAutoSuggestions(sg)

\* ----------------------------- calculatePortfolioMetrics, step by step
MaxPoints == 3

CurveValues == {0, 100, 110, 121}

Curves ==
    UNION {[1..n -> [year : {BaseYear}, projectedValue : CurveValues]] : n \in 0..MaxPoints}

MetricInitialValues == {0, 100, 110}

PmArgs == [projectionData : Curves, initialValue : MetricInitialValues]

PmInit ==
    /\ SimIdle
    /\ SgIdle
    /\ AlIdle
    /\ CtlIdle
    /\ pm \in PmArgs
    /\ pmPc = "call"
    /\ metrics = Null

\* if (projectionData.length === 0) return null;
ReturnNull ==
    /\ pmPc = "call"
    /\ IsEmpty(pm.projectionData)
    /\ metrics' = Null
    /\ pmPc' = "done"
    /\ UNCHANGED <<pm, simVars, sgVars, alVars, ctlVars>>

\* Lines 176-191: the metrics record.
ReturnMetrics ==
    /\ pmPc = "call"
    /\ ~IsEmpty(pm.projectionData)
    /\ metrics' = calculatePortfolioMetrics(pm.projectionData, pm.initialValue)
    /\ pmPc' = "done"
    /\ UNCHANGED <<pm, simVars, sgVars, alVars, ctlVars>>

PmNext == ReturnNull \/ ReturnMetrics

SpecMetrics == PmInit /\ [][PmNext]_vars

\* ------------------------------------------ getAlignment, step by step
MaxWallets == 2

WalletCurrentValues == {0, 45, 50, 70, 90, 91}

WalletTotals == {0, 100}

Wallets == [currentValue : WalletCurrentValues, totalPatrimony : WalletTotals]

\* prisma.client.findUnique: no client, or a client with its wallets.
AlClients ==
    {[found |-> FALSE, wallets |-> <<>>]}
        \cup {[found |-> TRUE, wallets |-> w] :
                w \in UNION {[1..n -> Wallets] : n \in 0..MaxWallets}}

AlInit ==
    /\ SimIdle
    /\ SgIdle
    /\ PmIdle
    /\ CtlIdle
    /\ al \in AlClients
    /\ alPc = "call"
    /\ alignment = [status |-> 0]

\* if (!client) return reply.status(404)
AlignmentNotFound ==
    /\ alPc = "call"
    /\ ~al.found
    /\ alignment' = [status |-> 404]
    /\ alPc' = "done"
    /\ UNCHANGED <<al, simVars, sgVars, pmVars, ctlVars>>

\* The sums, the percentage, the category and the reply.
AlignmentReply ==
    /\ alPc = "call"
    /\ al.found
    /\ alignment' = getAlignment(al.wallets)
    /\ alPc' = "done"
    /\ UNCHANGED <<al, simVars, sgVars, pmVars, ctlVars>>

AlNext == AlignmentNotFound \/ AlignmentReply

SpecAlignment == AlInit /\ [][AlNext]_vars

\* --------------------------------- SimulationController, request by request
MaxRequests == 2

SimulationNames == {"base", "plan"}

\* interestRate within the schema's 0..1.
RequestRates == {0, 1}

\* projectionYears within the schema's 1..50.
RequestYears == 1..MaxYears

CreateBodies ==
    [name : SimulationNames, initialValue : InitialValues,
     interestRate : RequestRates, projectionYears : RequestYears]

UpdateBodies ==
    [name : SimulationNames \cup {AbsentName},
     initialValue : InitialValues \cup {Absent},
     interestRate : RequestRates \cup {Absent},
     projectionYears : RequestYears \cup {Absent}]

Clients ==
    [events : {<<>>} \cup {<<e>> : e \in PoolEvents}, clockYear : {BaseYear}]

CtlInit ==
    /\ SimIdle
    /\ SgIdle
    /\ PmIdle
    /\ AlIdle
    /\ client \in Clients
    /\ db = <<>>
    /\ requests = 0

\* POST: the projection is computed and the row created.
Create(data) ==
    /\ requests < MaxRequests
    /\ db' = Append(db, CreatedSimulation(data, client))
    /\ requests' = requests + 1
    /\ UNCHANGED <<client, simVars, sgVars, pmVars, alVars>>

\* PUT on a row that exists.
Update(id, data) ==
    /\ requests < MaxRequests
    /\ id \in 1..Len(db)
    /\ db' = [db EXCEPT ![id] = UpdatedSimulation(db[id], data, client)]
    /\ requests' = requests + 1
    /\ UNCHANGED <<client, simVars, sgVars, pmVars, alVars>>

\* PUT on a row that does not exist: 404, nothing is written.
UpdateNotFound(id) ==
    /\ requests < MaxRequests
    /\ id \notin 1..Len(db)
    /\ requests' = requests + 1
    /\ UNCHANGED <<client, db, simVars, sgVars, pmVars, alVars>>

CtlNext ==
    \/ \E data \in CreateBodies : Create(data)
    \/ \E id \in 1..MaxRequests, data \in UpdateBodies : Update(id, data)
    \/ \E id \in 1..MaxRequests : UpdateNotFound(id)

SpecController == CtlInit /\ [][CtlNext]_vars

TypeOK ==
    /\ pc \in {"idle", "for", "months", "done"}
    /\ year \in 0..(MaxYears + 1)
    /\ month \in 0..MonthsPerYear

\* The two renderings of the function agree on the returned curve.
CurveAgrees == pc = "done" => projectionData = simulateWealthCurve(params, currentYear)

\* ------------------------------------------------------- claim vocabulary
Last(seq) == seq[Len(seq)]

\* projectedValue (cents) as a number comparable with initialValue (sub-units).
PointValue(pt) == pt.projectedValue * SubPerCent

\* n growth steps and nothing else: value * (1 + interestRate/12)^n.
RECURSIVE Compound(_, _, _)
Compound(value, rate, n) ==
    IF n = 0 THEN value ELSE Compound(Grow(value, rate), rate, n - 1)

\* The months whose loop body has run: <<calendar year, month>>.
Walked ==
    {<<TargetYear(currentYear, q[1]), q[2]>> :
        q \in {r \in (0..year) \X (0..(MonthsPerYear - 1)) :
                    r[1] < year \/ (pc = "months" /\ r[2] < month)}}

EventIdx == 1..Len(params.events)

\* A year-0 month step that changed the running value has run.
YearZeroMoved ==
    /\ Len(projectionData) >= 1
    /\ PointValue(projectionData[1]) # params.initialValue

\* C1: the first returned point (index 0, the current calendar year) has
\* projectedValue equal to initialValue: no growth step and no event is
\* applied before the year-0 snapshot.
C1_FirstPointIsInitialValue ==
    /\ year = 0 => (currentValue = params.initialValue /\ applied = {})
    /\ Len(projectionData) >= 1 =>
          PointValue(projectionData[1]) = params.initialValue

\* C2: simulateWealthCurve returns exactly projectionYears + 1 points.
C2_Length == pc = "done" => Len(projectionData) = params.projectionYears + 1

C2_Witness == pc = "done" /\ params.projectionYears >= 1 /\ Len(projectionData) >= 2

\* C3: zero floor: with initialValue >= 0, every projectedValue is >= 0 and
\* the running value is >= 0 at the end of every simulated month, whatever
\* the events.
C3_ZeroFloor ==
    params.initialValue >= 0 =>
        /\ currentValue >= 0
        /\ \A i \in 1..Len(projectionData) : projectionData[i].projectedValue >= 0

\* An outflow larger than the running value has been applied and floored.
C3_Witness ==
    /\ pc = "done"
    /\ params.initialValue > 0
    /\ Last(projectionData).projectedValue = 0
    /\ \E t \in applied :
          /\ IsOutflow(params.events[t[1]].type)
          /\ ToNumber(params.events[t[1]].value) >
                Compound(params.initialValue, params.interestRate,
                         MonthsPerYear * (MaxYears + 2))

\* C4: with no events, the point at index Y is initialValue after exactly
\* 12 * Y growth steps, for every Y in 0..projectionYears.
C4_PureCompounding ==
    params.events = <<>> =>
        \A i \in 1..Len(projectionData) :
            projectionData[i].projectedValue =
                RoundCents(Compound(params.initialValue, params.interestRate,
                                    MonthsPerYear * (i - 1)))

\* Month index of a date: its calendar month, whatever the day.
MonthOf(dt) == dt.y * MonthsPerYear + dt.m

MonthOfWalked(w) == w[1] * MonthsPerYear + w[2]

\* The months in which event i has been applied.
AppliedMonths(i) == {<<t[2], t[3]>> : t \in {u \in applied : u[1] = i}}

\* endDate is absent or not earlier than startDate.
Coherent(e) == e.endDate = NoDate \/ DateNum(e.endDate) >= DateNum(e.startDate)

\* The years whose months the run walks.
WalkedYears == currentYear..(currentYear + params.projectionYears)

\* C5: a ONCE event dated in a walked month (Y, M) is applied exactly once
\* over the whole run, in month (Y, M), whatever the day of its startDate.
C5_OnceExactlyOnce ==
    pc = "done" =>
        \A i \in EventIdx :
            LET e == params.events[i]
            IN  (e.frequency = "ONCE" /\ Coherent(e) /\ e.startDate.y \in WalkedYears)
                    => AppliedMonths(i) = {<<e.startDate.y, e.startDate.m>>}

\* The final value of the same run with no events.
NoEventFinal ==
    Last(simulateWealthCurve([params EXCEPT !.events = <<>>], currentYear)).projectedValue

\* The event list is one event of that kind and cadence, without endDate,
\* which started before the clock's reading.
SingleActive(type, frequency) ==
    /\ Len(params.events) = 1
    /\ params.events[1].type = type
    /\ params.events[1].frequency = frequency
    /\ params.events[1].endDate = NoDate
    /\ DateNum(params.events[1].startDate) < DateNum(now)

\* C6: with projectionYears = 1 and a single already active MONTHLY INCOME
\* of amount A, the final value exceeds the no-event final value by strictly
\* more than 12 * A.
C6_MonthlyIncomeGain ==
    (pc = "done" /\ params.projectionYears = 1 /\ SingleActive("INCOME", "MONTHLY"))
        => Last(projectionData).projectedValue - NoEventFinal
              > MonthsPerYear * params.events[1].value

\* The claim's table of signs.
SignedAmount(e) ==
    IF e.type \in {"INCOME", "BONUS", "INHERITANCE", "INVESTMENT"} THEN ToNumber(e.value)
    ELSE IF e.type \in {"EXPENSE", "WITHDRAWAL", "LOAN"} THEN 0 - ToNumber(e.value)
    ELSE 0

RECURSIVE SumSigned(_, _)
SumSigned(events, idx) ==
    IF idx = {} THEN 0
    ELSE LET i == CHOOSE j \in idx : TRUE
         IN  SignedAmount(events[i]) + SumSigned(events, idx \ {i})

\* The events applied in the month step that ran last.
LastStepIdx ==
    {i \in EventIdx : <<i, TargetYear(currentYear, year), month - 1>> \in applied}

\* C7: in each simulated month every applicable inflow adds exactly its
\* amount and every applicable outflow subtracts exactly its amount, the
\* floor being applied to the sum; and a single active MONTHLY EXPENSE never
\* ends above the no-event final value.
C7_SignByKind ==
    /\ (pc = "months" /\ month > 0) =>
          currentValue = Max(0, grown + SumSigned(params.events, LastStepIdx))
    /\ (pc = "done" /\ SingleActive("EXPENSE", "MONTHLY")) =>
          Last(projectionData).projectedValue <= NoEventFinal

\* A single active MONTHLY EXPENSE has been applied and the run has ended
\* strictly below the no-event final value.
C7_Witness ==
    /\ pc = "done"
    /\ SingleActive("EXPENSE", "MONTHLY")
    /\ applied # {}
    /\ Last(projectionData).projectedValue < NoEventFinal

\* The running value of the last month step before the floor, from the
\* claim's table of signs.
LastStepNet == grown + SumSigned(params.events, LastStepIdx)

\* C25: the zero floor is applied once at the end of every simulated month,
\* after growth and after all of the month's events: a month whose net
\* result is below zero leaves exactly 0, and the next month ends where it
\* would starting from 0 (the shortfall is not carried over).
C25_FloorAtMonthEnd ==
    (pc = "months" /\ month > 0) =>
        /\ net = LastStepNet
        /\ currentValue = (IF net < 0 THEN 0 ELSE net)
        /\ prevNet < 0 =>
              /\ grown = 0
              /\ currentValue = Max(0, SumSigned(params.events, LastStepIdx))

\* A month has ended below zero, and income of the next month has left the
\* running value above zero.
C25_Witness ==
    /\ pc = "months"
    /\ month > 0
    /\ prevNet < 0
    /\ currentValue > 0
    /\ currentValue = SumSigned(params.events, LastStepIdx)

\* The list without its entry i.
Without(seq, i) == SubSeq(seq, 1, i - 1) \o SubSeq(seq, i + 1, Len(seq))

\* Event e is a ONCE event of a month before January of currentYear + 1.
OnceBeforeFirstMonth(e) ==
    e.frequency = "ONCE" /\ MonthOf(e.startDate) < (currentYear + 1) * MonthsPerYear

\* C26: a ONCE event whose month precedes January of currentYear + 1, the
\* first month in which growth and events are applied, never fires: the
\* curve is the one of the event list without it.
C26_PastOnceNeverFires ==
    \A i \in EventIdx :
        OnceBeforeFirstMonth(params.events[i]) =>
            /\ AppliedMonths(i) = {}
            /\ pc = "done" =>
                  projectionData =
                    simulateWealthCurve([params EXCEPT !.events = Without(params.events, i)],
                                        currentYear)

\* The run with its horizon one year longer.
LongerCurve ==
    simulateWealthCurve([params EXCEPT !.projectionYears = params.projectionYears + 1],
                        currentYear)

\* C27: for the same initialValue, rate, events and clock year, the curve
\* for projectionYears = Y is the first Y + 1 points of the curve for
\* projectionYears = Y + 1.
C27_PrefixConsistency ==
    pc = "done" =>
        LET longer == LongerCurve
        IN  /\ Len(longer) = params.projectionYears + 2
            /\ projectionData = SubSeq(longer, 1, params.projectionYears + 1)

\* A run whose value moves (events, a positive rate) has ended, and the
\* longer run goes on to a different last point.
C27_Witness ==
    /\ pc = "done"
    /\ params.projectionYears >= 1
    /\ params.interestRate > 0
    /\ applied # {}
    /\ Last(LongerCurve).projectedValue # Last(projectionData).projectedValue

\* The permutations of 1..n that move something.
Perms(n) ==
    {f \in [1..n -> 1..n] : \A i, j \in 1..n : f[i] = f[j] => i = j}
        \ {[i \in 1..n |-> i]}

\* The list in the order given by permutation f, from position i on.
RECURSIVE PermutedFrom(_, _, _)
PermutedFrom(seq, f, i) ==
    IF i > Len(seq) THEN <<>> ELSE <<seq[f[i]]>> \o PermutedFrom(seq, f, i + 1)

\* The list in the order given by permutation f.
Permuted(seq, f) == PermutedFrom(seq, f, 1)

\* C28: permuting the event list changes no projection point, nor the value
\* at the end of any month, even in a month where a prefix of the events
\* takes the running value below zero.
C28_OrderIndependence ==
    Len(params.events) >= 2 =>
        \A f \in Perms(Len(params.events)) :
            LET permuted == Permuted(params.events, f)
            IN  /\ (pc = "months" /\ month > 0) =>
                      currentValue =
                        Floor0(ApplyEvents(grown,
                            getEventsForMonth(permuted,
                                MonthStart(TargetYear(currentYear, year), month - 1))))
                /\ pc = "done" =>
                      projectionData =
                        simulateWealthCurve([params EXCEPT !.events = permuted], currentYear)

\* Two events of one month: the outflow, first in the list, is larger than
\* the grown value, and the inflow after it brings the month back to >= 0.
C28_Witness ==
    /\ pc = "months"
    /\ month > 0
    /\ Len(params.events) = 2
    /\ LastStepIdx = {1, 2}
    /\ IsOutflow(params.events[1].type)
    /\ IsInflow(params.events[2].type)
    /\ ToNumber(params.events[1].value) > grown
    /\ net >= 0

\* C8: the point at index i has year = currentYear + i, in ascending order.
C8_ConsecutiveYears ==
    /\ \A i \in 1..Len(projectionData) : projectionData[i].year = currentYear + (i - 1)
    /\ pc = "done" => Len(projectionData) = params.projectionYears + 1

C8_Witness == pc = "done" /\ Len(projectionData) >= 2

\* Month w lies within the event's start and end months, both inclusive.
InMonthBounds(e, w) ==
    /\ MonthOfWalked(w) >= MonthOf(e.startDate)
    /\ e.endDate # NoDate => MonthOfWalked(w) <= MonthOf(e.endDate)

\* C9: an event applies in a month only if the month is not earlier than its
\* start month and not later than its end month, and both bounds are
\* inclusive: the start month and the end month are still eligible (a
\* MONTHLY event, which fires whenever eligible, is applied there).
C9_MonthBoundsInclusive ==
    \A w \in Walked : \A i \in EventIdx :
        LET e == params.events[i]
        IN  /\ <<i, w[1], w[2]>> \in applied => InMonthBounds(e, w)
            /\ (e.frequency = "MONTHLY" /\ InMonthBounds(e, w))
                  => <<i, w[1], w[2]>> \in applied

\* C10: a ONCE event applies in a month iff the month has the calendar year
\* and month of its startDate; the day of startDate is ignored, so two events
\* that differ only in that day apply in the same months.
C10_OnceSameMonth ==
    /\ \A w \in Walked : \A i \in EventIdx :
          LET e == params.events[i]
          IN  (e.frequency = "ONCE" /\ e.endDate = NoDate) =>
                 (<<i, w[1], w[2]>> \in applied
                    <=> (w[1] = e.startDate.y /\ w[2] = e.startDate.m))
    /\ pc = "done" =>
          \A i, j \in EventIdx :
              (/\ params.events[i].frequency = "ONCE"
               /\ params.events[j] =
                     [params.events[i] EXCEPT !.startDate.d = params.events[j].startDate.d])
                 => AppliedMonths(i) = AppliedMonths(j)

\* C11: a MONTHLY event applies in every simulated month from the month of
\* its startDate through the month of its endDate inclusive (to the end of
\* the horizon when endDate is absent), and in no other month.
C11_MonthlyEveryMonthInRange ==
    pc = "done" =>
        \A i \in EventIdx :
            LET e == params.events[i]
            IN  (e.frequency = "MONTHLY" /\ Coherent(e)) =>
                    AppliedMonths(i) = {w \in Walked : InMonthBounds(e, w)}

\* monthsElapsed of the claim, from the calendar months alone.
MonthsElapsed(e, w) == (w[1] - e.startDate.y) * MonthsPerYear + (w[2] - e.startDate.m)

\* C12: a QUARTERLY event applies in a month within its bounds iff
\* monthsElapsed is a multiple of 3: it fires in its start month and every
\* third month after it.
C12_QuarterlyAnchoredToStart ==
    \A w \in Walked : \A i \in EventIdx :
        LET e == params.events[i]
        IN  e.frequency = "QUARTERLY" =>
                (<<i, w[1], w[2]>> \in applied
                    <=> (InMonthBounds(e, w) /\ MonthsElapsed(e, w) % 3 = 0))

\* C13: an ANNUALLY event applies in a month within its bounds iff the month
\* is the calendar month of its startDate, so it fires exactly once in every
\* simulated year within its bounds, the year of startDate included.
C13_AnnuallyOnStartMonth ==
    /\ \A w \in Walked : \A i \in EventIdx :
          LET e == params.events[i]
          IN  e.frequency = "ANNUALLY" =>
                 (<<i, w[1], w[2]>> \in applied
                     <=> (InMonthBounds(e, w) /\ w[2] = e.startDate.m))
    /\ pc = "done" =>
          \A i \in EventIdx :
              LET e == params.events[i]
              IN  (/\ e.frequency = "ANNUALLY"
                   /\ e.endDate = NoDate
                   /\ e.startDate.y \in WalkedYears)
                     => Cardinality({w \in AppliedMonths(i) : w[1] = e.startDate.y}) = 1

\* --------------------------------------------- claims on the suggestions
Types(seq) == [i \in 1..Len(seq) |-> seq[i].type]

\* The values of a curve, in order.
ValuesOf(curve) == [i \in 1..Len(curve) |-> curve[i].projectedValue]

HasType(seq, type) == \E i \in 1..Len(seq) : seq[i].type = type

\* C14: when targetPatrimony - currentPatrimony <= 0 the result is exactly
\* one suggestion, CONGRATULATIONS with suggestedValue 0 and suggestedPeriod
\* 0, whatever the horizon and contribution; when the gap is > 0 no
\* CONGRATULATIONS is returned.
C14_Congratulations ==
    sgPc = "done" =>
        IF sg.targetPatrimony - sg.currentPatrimony <= 0
        THEN suggestions = <<[type |-> "CONGRATULATIONS",
                              suggestedValue |-> Fin(0), suggestedPeriod |-> Fin(0)]>>
        ELSE ~HasType(suggestions, "CONGRATULATIONS")

\* The gap is exactly zero, the horizon and the contribution are not.
C14_Witness ==
    /\ sgPc = "done"
    /\ sg.targetPatrimony = sg.currentPatrimony
    /\ sg.targetPatrimony > 0
    /\ sg.timeHorizonYears > 0
    /\ sg.currentMonthlyContribution > 0
    /\ Len(suggestions) = 1

\* C15: with gap > 0, ADJUST_ALLOCATION (without suggestedValue and
\* suggestedPeriod) is in the result iff gap / targetPatrimony > 0.5; a gap
\* of exactly half the target does not produce it, and neither the horizon
\* nor the contribution matters.
C15_AdjustAllocation ==
    (sgPc = "done" /\ sg.targetPatrimony - sg.currentPatrimony > 0) =>
        LET gap == sg.targetPatrimony - sg.currentPatrimony
            adjust == {i \in 1..Len(suggestions) : suggestions[i].type = "ADJUST_ALLOCATION"}
        IN  /\ (adjust # {}) <=> (2 * gap > sg.targetPatrimony)
            /\ \A i \in adjust :
                  /\ suggestions[i].suggestedValue = Undefined
                  /\ suggestions[i].suggestedPeriod = Undefined

\* A gap of exactly half the target has passed through the whole function.
C15_Witness ==
    /\ sgPc = "done"
    /\ sg.targetPatrimony - sg.currentPatrimony > 0
    /\ 2 * (sg.targetPatrimony - sg.currentPatrimony) = sg.targetPatrimony
    /\ ~HasType(suggestions, "ADJUST_ALLOCATION")
    /\ HasType(suggestions, "INCREASE_CONTRIBUTION")

\* The required monthly contribution of the claim: the gap over the annuity
\* factor at 0.04 / 12 over timeHorizonYears * 12 months, in cents.
Required ==
    GapOverFactor(sg.targetPatrimony - sg.currentPatrimony,
                  FutureValueFactor(sg.timeHorizonYears * 12 * TenthsPerMonth))

\* C16: with gap > 0, when the required monthly contribution exceeds
\* currentMonthlyContribution (always so for a contribution of 0 and a
\* horizon > 0) the first suggestion is INCREASE_CONTRIBUTION with
\* suggestedPeriod = timeHorizonYears * 12 and suggestedValue the additional
\* contribution rounded to the nearest integer; otherwise no
\* INCREASE_CONTRIBUTION is returned.
C16_IncreaseContribution ==
    (sgPc = "done" /\ sg.targetPatrimony - sg.currentPatrimony > 0) =>
        LET contribution == Fin(sg.currentMonthlyContribution * CentsPerUnit)
        IN  /\ (sg.currentMonthlyContribution = 0 /\ sg.timeHorizonYears > 0)
                  => Greater(Required, contribution)
            /\ IF Greater(Required, contribution)
               THEN /\ Len(suggestions) >= 1
                    /\ suggestions[1].type = "INCREASE_CONTRIBUTION"
                    /\ suggestions[1].suggestedPeriod
                          = Fin(sg.timeHorizonYears * 12 * TenthsPerMonth)
                    /\ suggestions[1].suggestedValue
                          = RoundUnits(Minus(Required, sg.currentMonthlyContribution))
               ELSE ~HasType(suggestions, "INCREASE_CONTRIBUTION")

\* Both cases in finite numbers: a needed increase over a positive
\* contribution and horizon, rounded to a positive whole amount.
C16_Witness ==
    /\ sgPc = "done"
    /\ sg.timeHorizonYears > 0
    /\ sg.currentMonthlyContribution > 0
    /\ Len(suggestions) >= 1
    /\ suggestions[1].type = "INCREASE_CONTRIBUTION"
    /\ suggestions[1].suggestedValue.k = "fin"
    /\ suggestions[1].suggestedValue.v > 0

\* The required contribution does not exceed the current one.
C16_WitnessEnough ==
    /\ sgPc = "done"
    /\ sg.targetPatrimony - sg.currentPatrimony > 0
    /\ ~Greater(Required, Fin(sg.currentMonthlyContribution * CentsPerUnit))
    /\ ~HasType(suggestions, "INCREASE_CONTRIBUTION")

\* Indices of the INCREASE_CONTRIBUTION entries of the result.
IncreaseIdx == {i \in 1..Len(suggestions) : suggestions[i].type = "INCREASE_CONTRIBUTION"}

\* max(24, timeHorizonYears * 12 * 0.7), in tenths of a month.
ShorterTenths == Max(240, sg.timeHorizonYears * 84)

\* The additional contribution needed over a period, in cents.
NeededOver(periodTenths) ==
    Minus(GapOverFactor(sg.targetPatrimony - sg.currentPatrimony,
                        FutureValueFactor(periodTenths)),
          sg.currentMonthlyContribution)

\* x is strictly greater than y (x, y finite or infinite).
Exceeds(x, y) ==
    \/ x.k = "inf" /\ y.k = "fin"
    \/ x.k = "fin" /\ y.k = "fin" /\ x.v > y.v

\* C22: when the first INCREASE_CONTRIBUTION is emitted, a second one, for
\* shorterPeriod = max(24, timeHorizonYears * 12 * 0.7) months, is emitted iff
\* the additional contribution needed over shorterPeriod is strictly greater
\* than the first suggestion's; the second never comes without the first.
C22_AcceleratedAlternative ==
    (sgPc = "done" /\ sg.targetPatrimony - sg.currentPatrimony > 0) =>
        LET full   == NeededOver(sg.timeHorizonYears * 120)
            faster == NeededOver(ShorterTenths)
        IN  /\ IncreaseIdx \in {{}, {1}, {1, 2}}
            /\ 1 \in IncreaseIdx =>
                  ((2 \in IncreaseIdx) <=> Exceeds(faster, full))
            /\ 2 \in IncreaseIdx =>
                  /\ suggestions[1].suggestedPeriod = Fin(sg.timeHorizonYears * 120)
                  /\ suggestions[2].suggestedPeriod = Fin(ShorterTenths)
                  /\ suggestions[2].suggestedValue = RoundUnits(faster)

\* A horizon of 3 years: the second suggestion is there, over 25.2 months.
C22_Witness ==
    /\ sgPc = "done"
    /\ sg.timeHorizonYears = 3
    /\ IncreaseIdx = {1, 2}
    /\ suggestions[2].suggestedPeriod = Fin(252)

\* A horizon of 2 years: both periods are 24 months, the needs are equal and
\* only the first suggestion is there.
C22_WitnessEqual ==
    /\ sgPc = "done"
    /\ sg.timeHorizonYears = 2
    /\ IncreaseIdx = {1}

\* C23: with gap > 0 the result is, in this order, the full-horizon
\* INCREASE_CONTRIBUTION (if any), the accelerated INCREASE_CONTRIBUTION (if
\* any) and ADJUST_ALLOCATION (if any): at most two of the first type, at
\* most one of the last, which is always last.
C23_FixedOrder ==
    (sgPc = "done" /\ sg.targetPatrimony - sg.currentPatrimony > 0) =>
        /\ Types(suggestions) \in
              {<<>>,
               <<"INCREASE_CONTRIBUTION">>,
               <<"INCREASE_CONTRIBUTION", "INCREASE_CONTRIBUTION">>,
               <<"ADJUST_ALLOCATION">>,
               <<"INCREASE_CONTRIBUTION", "ADJUST_ALLOCATION">>,
               <<"INCREASE_CONTRIBUTION", "INCREASE_CONTRIBUTION", "ADJUST_ALLOCATION">>}
        /\ Len(suggestions) >= 1 /\ suggestions[1].type = "INCREASE_CONTRIBUTION" =>
              suggestions[1].suggestedPeriod = Fin(sg.timeHorizonYears * 120)
        /\ Len(suggestions) >= 2 /\ suggestions[2].type = "INCREASE_CONTRIBUTION" =>
              suggestions[2].suggestedPeriod = Fin(Max(240, sg.timeHorizonYears * 84))

\* All three suggestions have been returned.
C23_Witness ==
    /\ sgPc = "done"
    /\ Types(suggestions) =
          <<"INCREASE_CONTRIBUTION", "INCREASE_CONTRIBUTION", "ADJUST_ALLOCATION">>

\* C24: every suggestedPeriod present in the result is a whole number of
\* months, for every whole timeHorizonYears >= 0.
C24_WholeMonths ==
    sgPc = "done" =>
        \A i \in 1..Len(suggestions) :
            suggestions[i].suggestedPeriod.k = "fin" =>
                suggestions[i].suggestedPeriod.v % TenthsPerMonth = 0

\* C29: every suggestedValue present in the result is finite and not
\* negative, for gap > 0 and timeHorizonYears >= 0, timeHorizonYears = 0
\* included.
C29_FiniteValue ==
    (sgPc = "done" /\ sg.targetPatrimony - sg.currentPatrimony > 0) =>
        \A i \in 1..Len(suggestions) :
            suggestions[i].suggestedValue.k # "undef" =>
                /\ suggestions[i].suggestedValue.k = "fin"
                /\ suggestions[i].suggestedValue.v >= 0

\* ------------------------------------------------- claims on the metrics
\* C17: calculatePortfolioMetrics returns null iff the curve is empty; for
\* every non-empty curve it returns a metrics record, whatever initialValue.
C17_NullIffEmpty ==
    pmPc = "done" =>
        /\ (metrics = [isNull |-> TRUE]) <=> (Len(pm.projectionData) = 0)
        /\ Len(pm.projectionData) > 0 =>
              /\ metrics.isNull = FALSE
              /\ DOMAIN metrics = {"isNull", "finalValue", "totalGain",
                                   "totalGainPercent", "cagr", "projectionYears"}

\* A one-point curve with initialValue 0 has given a record.
C17_Witness ==
    /\ pmPc = "done"
    /\ Len(pm.projectionData) = 1
    /\ pm.initialValue = 0
    /\ metrics.isNull = FALSE

\* C18: for a non-empty curve, finalValue is the last point's value,
\* projectionYears = length - 1, totalGain = finalValue - initialValue and
\* totalGainPercent = totalGain / initialValue * 100 (2 decimals) when
\* initialValue > 0, else 0; the curve 100000, 110000, 121000 with
\* initialValue 100000 (here in thousands) gives 121000, 21000, 21 and 2.
C18_GainFields ==
    (pmPc = "done" /\ Len(pm.projectionData) > 0) =>
        LET curve == pm.projectionData
            last  == curve[Len(curve)].projectedValue
        IN  /\ metrics.finalValue = last
            /\ metrics.projectionYears = Len(curve) - 1
            /\ metrics.totalGain = last - pm.initialValue
            /\ pm.initialValue > 0 =>
                  /\ 2 * pm.initialValue * metrics.totalGainPercent
                        <= 2 * PercentScale * (last - pm.initialValue) + pm.initialValue
                  /\ 2 * pm.initialValue * metrics.totalGainPercent
                        > 2 * PercentScale * (last - pm.initialValue) - pm.initialValue
            /\ pm.initialValue <= 0 => metrics.totalGainPercent = 0
            /\ (pm.initialValue = 100 /\ ValuesOf(curve) = <<100, 110, 121>>) =>
                  /\ metrics.finalValue = 121
                  /\ metrics.totalGain = 21
                  /\ metrics.totalGainPercent = 2100
                  /\ metrics.projectionYears = 2

\* The example of the claim, and a loss, have been computed.
C18_Witness ==
    /\ pmPc = "done"
    /\ pm.initialValue = 100
    /\ ValuesOf(pm.projectionData) = <<100, 110, 121>>
    /\ metrics.totalGainPercent = 2100

\* The growth factor, in 1 / RootScale, that the reported cagr stands for.
FactorOf(cagrPercent) == RootScale + RoundDiv(cagrPercent * RootScale, PercentScale)

\* C19: cagr is 0 for a one-point curve; for n + 1 points (n > 0) and
\* initialValue > 0 it is the percentage c with initialValue * (1 + c/100)^n
\* equal to the final value, up to the rounding of c; a final value of
\* initialValue * g^n gives (g - 1) * 100, e.g. 10 for 100000, 110000, 121000
\* (to within half a step of the root's resolution).
C19_Cagr ==
    (pmPc = "done" /\ Len(pm.projectionData) > 0) =>
        LET curve == pm.projectionData
            last  == curve[Len(curve)].projectedValue
            n     == Len(curve) - 1
            init  == pm.initialValue
        IN  /\ n = 0 => metrics.cagr = Fin(0)
            /\ (n > 0 /\ init > 0) =>
                  /\ metrics.cagr.k = "fin"
                  /\ LET r == FactorOf(metrics.cagr.v)
                     IN  /\ r >= 0
                         /\ r > 0 => init * IntPow(2 * r - 1, n)
                                        <= last * IntPow(2 * RootScale, n)
                         /\ init * IntPow(2 * r + 1, n) > last * IntPow(2 * RootScale, n)
                  /\ \A g \in 0..(2 * RootScale) :
                        last * IntPow(RootScale, n) = init * IntPow(g, n)
                           => metrics.cagr = Fin(RoundDiv((g - RootScale) * PercentScale, RootScale))
            /\ (init = 100 /\ ValuesOf(curve) = <<100, 110, 121>>) =>
                  /\ metrics.cagr.k = "fin"
                  /\ 2 * RootScale * (metrics.cagr.v - 1000) <= PercentScale + RootScale
                  /\ 2 * RootScale * (1000 - metrics.cagr.v) <= PercentScale + RootScale

\* The example of the claim has been computed: two years at 10 %.
C19_Witness ==
    /\ pmPc = "done"
    /\ pm.initialValue = 100
    /\ ValuesOf(pm.projectionData) = <<100, 110, 121>>
    /\ metrics.cagr = Fin(1000)

\* C20: no field of the metrics is NaN or infinite: with initialValue 0 and
\* two or more points the division in the CAGR is guarded and cagr is 0, as
\* totalGainPercent is.
C20_NoNonFiniteField ==
    (pmPc = "done" /\ Len(pm.projectionData) > 0) =>
        /\ metrics.cagr.k = "fin"
        /\ pm.initialValue = 0 =>
              (metrics.cagr = Fin(0) /\ metrics.totalGainPercent = 0)

\* ----------------------------------------------- claims on the alignment
AlignmentCategories == {"EXCELLENT", "GOOD", "WARNING", "CRITICAL"}

\* The category the claim gives to the percentage num / den (den > 0).
ClaimedCategories(num, den) ==
    {c \in AlignmentCategories :
        \/ c = "EXCELLENT" /\ num > 90 * den
        \/ c = "GOOD" /\ num >= 70 * den /\ num <= 90 * den
        \/ c = "WARNING" /\ num >= 50 * den /\ num < 70 * den
        \/ c = "CRITICAL" /\ num < 50 * den}

\* C21: every client found gets exactly one category from p = current /
\* planned * 100 (0 when planned is not positive): EXCELLENT when p > 90,
\* GOOD when 70 <= p <= 90, WARNING when 50 <= p < 70, CRITICAL when p < 50;
\* the four ranges cover every p without overlap.
C21_AlignmentCategory ==
    (alPc = "done" /\ al.found) =>
        LET current == SumCurrent(al.wallets)
            planned == SumPlanned(al.wallets)
            num     == IF planned > 0 THEN current * 100 ELSE 0
            den     == IF planned > 0 THEN planned ELSE 1
        IN  /\ alignment.category \in AlignmentCategories
            /\ ClaimedCategories(num, den) = {alignment.category}

\* A client at exactly 90 % over two wallets has been rated GOOD.
C21_Witness ==
    /\ alPc = "done"
    /\ al.found
    /\ Len(al.wallets) = 2
    /\ SumPlanned(al.wallets) = 200
    /\ SumCurrent(al.wallets) = 180
    /\ alignment.category = "GOOD"

\* ------------------------------------------- claims on the controller
\* C30: after any sequence of create and update requests, every stored
\* simulation's projectionData is simulateWealthCurve of its stored
\* initialValue, interestRate and projectionYears (with the client's events
\* and clock year), also after an update that sets initialValue or
\* interestRate to 0.
C30_StoredProjectionAgrees ==
    \A id \in 1..Len(db) :
        db[id].projectionData =
            simulateWealthCurve([initialValue |-> db[id].initialValue,
                                 interestRate |-> db[id].interestRate,
                                 events |-> client.events,
                                 projectionYears |-> db[id].projectionYears],
                                client.clockYear)
====
